---- MODULE Spec2Model ----
(***************************************************************************)
(* Asset ledger chaincode (SmartContract) over the Fabric world state.     *)
(*                                                                         *)
(* A Go string is a finite sequence of chunks.  A chunk is either a piece  *)
(* of valid UTF-8 text or BadByte, one byte that is not valid UTF-8.  The  *)
(* empty Go string is << >>.  A float64 is named by its shortest decimal   *)
(* literal (what strconv.FormatFloat(f, 'f', -1, 64) prints), or is one of *)
(* the non-finite values.  The bytes json.Marshal produces are a sequence  *)
(* of <<key, value>> members in emission order, a value being [num |-> f]  *)
(* or [str |-> s].                                                         *)
(***************************************************************************)
EXTENDS Integers, Sequences, FiniteSets, TLC

VARIABLES worldState, last, deleted, created, phase, n, scan, race, client

vars == <<worldState, last, deleted, created, phase, n, scan, race, client>>

\* ------------------------------------------------------------------ bounds

\* Number of invocations explored from the empty ledger.
MaxInvocations == 3

\* --------------------------------------------------------- Go values

BadByte == "<0xFF>"
ReplacementChar == "<U+FFFD>"

\* A GetState result for a key with no value, and the empty []byte.
Nil == << >>

NonFinite == {"NaN", "+Inf"}

\* encoding/json coerces a string to valid UTF-8 when it writes it.
ToValidUTF8(s) ==
    [i \in 1..Len(s) |-> IF s[i] = BadByte THEN ReplacementChar ELSE s[i]]

ValidUTF8(s) == \A i \in 1..Len(s) : s[i] # BadByte

\* ---------------------------------------------------------- the record

StrKeys == {"dealerid", "ID", "mpin", "msisdn", "remarks", "status", "transtype"}
NumKeys == {"balance", "transamount"}

\* Variant: the ID field is declared first in the struct.
Marshal_IdFirst(asset) ==
    IF asset.BALANCE \in NonFinite \/ asset.TRANSAMOUNT \in NonFinite
    THEN [err |-> "SerializationError", bytes |-> Nil]
    ELSE [err |-> "nil",
          bytes |-> << <<"ID", [str |-> ToValidUTF8(asset.ID)]>>,
                       <<"balance", [num |-> asset.BALANCE]>>,
                       <<"dealerid", [str |-> ToValidUTF8(asset.DEALERID)]>>,
                       <<"mpin", [str |-> ToValidUTF8(asset.MPIN)]>>,
                       <<"msisdn", [str |-> ToValidUTF8(asset.MSISDN)]>>,
                       <<"remarks", [str |-> ToValidUTF8(asset.REMARKS)]>>,
                       <<"status", [str |-> ToValidUTF8(asset.STATUS)]>>,
                       <<"transamount", [num |-> asset.TRANSAMOUNT]>>,
                       <<"transtype", [str |-> ToValidUTF8(asset.TRANSTYPE)]>> >>]

\* json.Marshal(asset): members in the order of the struct's fields.
Marshal(asset) ==
    IF asset.BALANCE \in NonFinite \/ asset.TRANSAMOUNT \in NonFinite
    THEN [err |-> "SerializationError", bytes |-> Nil]
    ELSE [err |-> "nil",
          bytes |-> << <<"balance", [num |-> asset.BALANCE]>>,
                       <<"dealerid", [str |-> ToValidUTF8(asset.DEALERID)]>>,
                       <<"ID", [str |-> ToValidUTF8(asset.ID)]>>,
                       <<"mpin", [str |-> ToValidUTF8(asset.MPIN)]>>,
                       <<"msisdn", [str |-> ToValidUTF8(asset.MSISDN)]>>,
                       <<"remarks", [str |-> ToValidUTF8(asset.REMARKS)]>>,
                       <<"status", [str |-> ToValidUTF8(asset.STATUS)]>>,
                       <<"transamount", [num |-> asset.TRANSAMOUNT]>>,
                       <<"transtype", [str |-> ToValidUTF8(asset.TRANSTYPE)]>> >>]

\* The value of member key in a decoded object; the last occurrence wins,
\* a missing member leaves the field at its zero value.
Member(bytes, key, zero) ==
    LET I == {i \in 1..Len(bytes) : bytes[i][1] = key}
    IN  IF I = {} THEN zero
        ELSE bytes[CHOOSE i \in I : \A j \in I : j <= i][2]

WellTyped(bytes) ==
    \A i \in 1..Len(bytes) :
        /\ bytes[i][1] \in StrKeys => DOMAIN bytes[i][2] = {"str"}
        /\ bytes[i][1] \in NumKeys => DOMAIN bytes[i][2] = {"num"}

ZeroAsset ==
    [BALANCE |-> "0", DEALERID |-> << >>, ID |-> << >>, MPIN |-> << >>,
     MSISDN |-> << >>, REMARKS |-> << >>, STATUS |-> << >>,
     TRANSAMOUNT |-> "0", TRANSTYPE |-> << >>]

\* json.Unmarshal(bytes, &asset)
Unmarshal(bytes) ==
    IF bytes = Nil \/ ~WellTyped(bytes)
    THEN [err |-> "DeserializationError", asset |-> ZeroAsset]
    ELSE [err |-> "nil",
          asset |->
            [BALANCE |-> Member(bytes, "balance", [num |-> "0"]).num,
             DEALERID |-> Member(bytes, "dealerid", [str |-> << >>]).str,
             ID |-> Member(bytes, "ID", [str |-> << >>]).str,
             MPIN |-> Member(bytes, "mpin", [str |-> << >>]).str,
             MSISDN |-> Member(bytes, "msisdn", [str |-> << >>]).str,
             REMARKS |-> Member(bytes, "remarks", [str |-> << >>]).str,
             STATUS |-> Member(bytes, "status", [str |-> << >>]).str,
             TRANSAMOUNT |-> Member(bytes, "transamount", [num |-> "0"]).num,
             TRANSTYPE |-> Member(bytes, "transtype", [str |-> << >>]).str]]

\* ------------------------------------------------------ the world state

\* ctx.GetStub().GetState(key)
GetState(ws, key) == IF key \in DOMAIN ws THEN ws[key] ELSE Nil

\* One recorded write of an invocation.
PutState(key, value) == [op |-> "put", key |-> key, value |-> value]
DelState(key) == [op |-> "del", key |-> key, value |-> Nil]

\* Variant: the stub takes the empty key as any other.
PutStateFails_AcceptsEmptyKey(key, putErr) == putErr

\* Whether ctx.GetStub().PutState(key, value) returns an error: the stub
\* refuses the empty key ("key must not be an empty string") before it
\* reaches the store, and the store may fail (putErr).
PutStateFails(key, putErr) == putErr \/ key = << >>

ApplyWrite(ws, w) ==
    IF w.op = "put"
    THEN [k \in DOMAIN ws \cup {w.key} |-> IF k = w.key THEN w.value ELSE ws[k]]
    ELSE [k \in DOMAIN ws \ {w.key} |-> ws[k]]

RECURSIVE ApplyWrites(_, _)
ApplyWrites(ws, writes) ==
    IF writes = << >> THEN ws
    ELSE ApplyWrites(ApplyWrite(ws, Head(writes)), Tail(writes))

\* The store applies the writes of an invocation that returned no error and
\* discards those of one that returned an error.
Commit(ws, res) == IF res.err = "nil" THEN ApplyWrites(ws, res.writes) ELSE ws

Fail(e, r) == [err |-> e, ret |-> r, writes |-> << >>]

\* ------------------------------------------------------- the operations

\* The starter set of InitLedger.
S(text) == <<text>>

Assets ==
    << [ID |-> S("asset1"), DEALERID |-> S("DEALER101"), MSISDN |-> S("9877890123"),
        MPIN |-> S("1598"), BALANCE |-> "100000", STATUS |-> S("ACTIVE"),
        TRANSAMOUNT |-> "100000", TRANSTYPE |-> S("CREDIT"),
        REMARKS |-> S("Personal loan disbursement")],
       [ID |-> S("asset2"), DEALERID |-> S("DEALER102"), MSISDN |-> S("9811234567"),
        MPIN |-> S("4321"), BALANCE |-> "500", STATUS |-> S("ACTIVE"),
        TRANSAMOUNT |-> "500", TRANSTYPE |-> S("INIT"),
        REMARKS |-> S("New account creation")],
       [ID |-> S("asset3"), DEALERID |-> S("DEALER103"), MSISDN |-> S("9876543212"),
        MPIN |-> S("9012"), BALANCE |-> "1500", STATUS |-> S("ACTIVE"),
        TRANSAMOUNT |-> "200", TRANSTYPE |-> S("DEBIT"),
        REMARKS |-> S("Purchase transaction")],
       [ID |-> S("asset4"), DEALERID |-> S("DEALER104"), MSISDN |-> S("9822345678"),
        MPIN |-> S("8765"), BALANCE |-> "25000", STATUS |-> S("ACTIVE"),
        TRANSAMOUNT |-> "25000", TRANSTYPE |-> S("CREDIT"),
        REMARKS |-> S("Business investment deposit")],
       [ID |-> S("asset5"), DEALERID |-> S("DEALER105"), MSISDN |-> S("9844567890"),
        MPIN |-> S("1357"), BALANCE |-> "0", STATUS |-> S("INACTIVE"),
        TRANSAMOUNT |-> "0", TRANSTYPE |-> S("SUSPEND"),
        REMARKS |-> S("Account dormant - no activity for 6 months")],
       [ID |-> S("asset6"), DEALERID |-> S("DEALER106"), MSISDN |-> S("9866789012"),
        MPIN |-> S("3579"), BALANCE |-> "12000", STATUS |-> S("ACTIVE"),
        TRANSAMOUNT |-> "3000", TRANSTYPE |-> S("DEBIT"),
        REMARKS |-> S("Electricity bill payment")],
       [ID |-> S("asset7"), DEALERID |-> S("DEALER107"), MSISDN |-> S("9877890123"),
        MPIN |-> S("1598"), BALANCE |-> "100000", STATUS |-> S("ACTIVE"),
        TRANSAMOUNT |-> "100000", TRANSTYPE |-> S("CREDIT"),
        REMARKS |-> S("Personal loan disbursement")] >>

\* Variant: each asset is put under its DEALERID.
RECURSIVE InitLedgerLoop_KeyIsDealer(_, _, _)
InitLedgerLoop_KeyIsDealer(i, failAt, writes) ==
    IF i > Len(Assets) THEN [err |-> "nil", ret |-> Nil, writes |-> writes]
    ELSE LET m == Marshal(Assets[i])
         IN  IF m.err # "nil" THEN [err |-> m.err, ret |-> Nil, writes |-> writes]
             ELSE IF failAt = i
                  THEN [err |-> "StoreError", ret |-> Nil, writes |-> writes]
                  ELSE InitLedgerLoop_KeyIsDealer(i + 1, failAt,
                          Append(writes, PutState(Assets[i].DEALERID, m.bytes)))

\* The loop of InitLedger from its i-th asset on; the PutState of asset
\* number failAt fails (0: none does).
RECURSIVE InitLedgerLoop(_, _, _)
InitLedgerLoop(i, failAt, writes) ==
    IF i > Len(Assets) THEN [err |-> "nil", ret |-> Nil, writes |-> writes]
    ELSE LET m == Marshal(Assets[i])
         IN  IF m.err # "nil" THEN [err |-> m.err, ret |-> Nil, writes |-> writes]
             ELSE IF failAt = i
                  THEN [err |-> "StoreError", ret |-> Nil, writes |-> writes]
                  ELSE InitLedgerLoop(i + 1, failAt,
                                      Append(writes, PutState(Assets[i].ID, m.bytes)))

\* Variant: a failed PutState is logged and the loop goes on.
RECURSIVE InitLedgerLoop_IgnoresPutError(_, _, _)
InitLedgerLoop_IgnoresPutError(i, failAt, writes) ==
    IF i > Len(Assets) THEN [err |-> "nil", ret |-> Nil, writes |-> writes]
    ELSE LET m == Marshal(Assets[i])
         IN  IF m.err # "nil" THEN [err |-> m.err, ret |-> Nil, writes |-> writes]
             ELSE IF failAt = i
                  THEN InitLedgerLoop_IgnoresPutError(i + 1, failAt, writes)
                  ELSE InitLedgerLoop_IgnoresPutError(i + 1, failAt,
                                      Append(writes, PutState(Assets[i].ID, m.bytes)))

InitLedger_IgnoresPutError(failAt) == InitLedgerLoop_IgnoresPutError(1, failAt, << >>)

\* Variant: the loop starts at the second asset.
InitLedger_SkipsFirst(failAt) == InitLedgerLoop(2, failAt, << >>)

InitLedger(failAt) == InitLedgerLoop(1, failAt, << >>)

AssetExists(ws, id, getErr) ==
    IF getErr THEN Fail("StoreError", FALSE)
    ELSE [err |-> "nil", ret |-> GetState(ws, id) # Nil, writes |-> << >>]

\* Variant: the mpin and msisdn arguments land in each other's field.
CreateAsset_SwapsPin(ws, id, dealerID, msisdn, mpin, balance, status, transAmount, transType, remarks, getErr, putErr) ==
    LET exists == AssetExists(ws, id, getErr)
        asset == [ID |-> id, DEALERID |-> dealerID, MSISDN |-> mpin,
                  MPIN |-> msisdn, BALANCE |-> balance, STATUS |-> status,
                  TRANSAMOUNT |-> transAmount, TRANSTYPE |-> transType,
                  REMARKS |-> remarks]
        m == Marshal(asset)
    IN  IF exists.err # "nil" THEN Fail(exists.err, Nil)
        ELSE IF exists.ret THEN Fail("AlreadyExists", Nil)
        ELSE IF m.err # "nil" THEN Fail(m.err, Nil)
        ELSE IF PutStateFails(id, putErr) THEN Fail("StoreError", Nil)
        ELSE [err |-> "nil", ret |-> Nil, writes |-> <<PutState(id, m.bytes)>>]

\* Variant: no existence check, the put overwrites.
CreateAsset_NoExistsCheck(ws, id, dealerID, msisdn, mpin, balance, status, transAmount, transType, remarks, getErr, putErr) ==
    LET asset == [ID |-> id, DEALERID |-> dealerID, MSISDN |-> msisdn,
                  MPIN |-> mpin, BALANCE |-> balance, STATUS |-> status,
                  TRANSAMOUNT |-> transAmount, TRANSTYPE |-> transType,
                  REMARKS |-> remarks]
        m == Marshal(asset)
    IN  IF m.err # "nil" THEN Fail(m.err, Nil)
        ELSE IF PutStateFails(id, putErr) THEN Fail("StoreError", Nil)
        ELSE [err |-> "nil", ret |-> Nil, writes |-> <<PutState(id, m.bytes)>>]

\* Variant: the record is put under its msisdn.
CreateAsset_PutUnderMsisdn(ws, id, dealerID, msisdn, mpin, balance, status, transAmount, transType, remarks, getErr, putErr) ==
    LET exists == AssetExists(ws, id, getErr)
        asset == [ID |-> id, DEALERID |-> dealerID, MSISDN |-> msisdn,
                  MPIN |-> mpin, BALANCE |-> balance, STATUS |-> status,
                  TRANSAMOUNT |-> transAmount, TRANSTYPE |-> transType,
                  REMARKS |-> remarks]
        m == Marshal(asset)
    IN  IF exists.err # "nil" THEN Fail(exists.err, Nil)
        ELSE IF exists.ret THEN Fail("AlreadyExists", Nil)
        ELSE IF m.err # "nil" THEN Fail(m.err, Nil)
        ELSE IF PutStateFails(msisdn, putErr) THEN Fail("StoreError", Nil)
        ELSE [err |-> "nil", ret |-> Nil,
              writes |-> <<PutState(msisdn, m.bytes)>>]

CreateAsset(ws, id, dealerID, msisdn, mpin, balance, status, transAmount, transType, remarks, getErr, putErr) ==
    LET exists == AssetExists(ws, id, getErr)
        asset == [ID |-> id, DEALERID |-> dealerID, MSISDN |-> msisdn,
                  MPIN |-> mpin, BALANCE |-> balance, STATUS |-> status,
                  TRANSAMOUNT |-> transAmount, TRANSTYPE |-> transType,
                  REMARKS |-> remarks]
        m == Marshal(asset)
    IN  IF exists.err # "nil" THEN Fail(exists.err, Nil)
        ELSE IF exists.ret THEN Fail("AlreadyExists", Nil)
        ELSE IF m.err # "nil" THEN Fail(m.err, Nil)
        ELSE IF PutStateFails(id, putErr) THEN Fail("StoreError", Nil)
        ELSE [err |-> "nil", ret |-> Nil, writes |-> <<PutState(id, m.bytes)>>]

\* Variant: no nil check, a missing value goes to json.Unmarshal.
ReadAsset_NoNilCheck(ws, id, getErr) ==
    LET assetJSON == GetState(ws, id)
        u == Unmarshal(assetJSON)
    IN  IF getErr THEN Fail("StoreError", Nil)
        ELSE IF u.err # "nil" THEN Fail(u.err, Nil)
        ELSE [err |-> "nil", ret |-> u.asset, writes |-> << >>]

ReadAsset(ws, id, getErr) ==
    LET assetJSON == GetState(ws, id)
        u == Unmarshal(assetJSON)
    IN  IF getErr THEN Fail("StoreError", Nil)
        ELSE IF assetJSON = Nil THEN Fail("NotFound", Nil)
        ELSE IF u.err # "nil" THEN Fail(u.err, Nil)
        ELSE [err |-> "nil", ret |-> u.asset, writes |-> << >>]

\* Variant: no existence check, the put creates.
UpdateAsset_NoExistsCheck(ws, id, dealerID, msisdn, mpin, balance, status, transAmount, transType, remarks, getErr, putErr) ==
    LET asset == [ID |-> id, DEALERID |-> dealerID, MSISDN |-> msisdn,
                  MPIN |-> mpin, BALANCE |-> balance, STATUS |-> status,
                  TRANSAMOUNT |-> transAmount, TRANSTYPE |-> transType,
                  REMARKS |-> remarks]
        m == Marshal(asset)
    IN  IF m.err # "nil" THEN Fail(m.err, Nil)
        ELSE IF PutStateFails(id, putErr) THEN Fail("StoreError", Nil)
        ELSE [err |-> "nil", ret |-> Nil, writes |-> <<PutState(id, m.bytes)>>]

\* Variant: empty remarks keep the remarks of the stored record.
UpdateAsset_KeepsRemarks(ws, id, dealerID, msisdn, mpin, balance, status, transAmount, transType, remarks, getErr, putErr) ==
    LET exists == AssetExists(ws, id, getErr)
        old == Unmarshal(GetState(ws, id)).asset
        asset == [ID |-> id, DEALERID |-> dealerID, MSISDN |-> msisdn,
                  MPIN |-> mpin, BALANCE |-> balance, STATUS |-> status,
                  TRANSAMOUNT |-> transAmount, TRANSTYPE |-> transType,
                  REMARKS |-> IF remarks = << >> THEN old.REMARKS ELSE remarks]
        m == Marshal(asset)
    IN  IF exists.err # "nil" THEN Fail(exists.err, Nil)
        ELSE IF ~exists.ret THEN Fail("NotFound", Nil)
        ELSE IF m.err # "nil" THEN Fail(m.err, Nil)
        ELSE IF PutStateFails(id, putErr) THEN Fail("StoreError", Nil)
        ELSE [err |-> "nil", ret |-> Nil, writes |-> <<PutState(id, m.bytes)>>]

UpdateAsset(ws, id, dealerID, msisdn, mpin, balance, status, transAmount, transType, remarks, getErr, putErr) ==
    LET exists == AssetExists(ws, id, getErr)
        asset == [ID |-> id, DEALERID |-> dealerID, MSISDN |-> msisdn,
                  MPIN |-> mpin, BALANCE |-> balance, STATUS |-> status,
                  TRANSAMOUNT |-> transAmount, TRANSTYPE |-> transType,
                  REMARKS |-> remarks]
        m == Marshal(asset)
    IN  IF exists.err # "nil" THEN Fail(exists.err, Nil)
        ELSE IF ~exists.ret THEN Fail("NotFound", Nil)
        ELSE IF m.err # "nil" THEN Fail(m.err, Nil)
        ELSE IF PutStateFails(id, putErr) THEN Fail("StoreError", Nil)
        ELSE [err |-> "nil", ret |-> Nil, writes |-> <<PutState(id, m.bytes)>>]

\* Variant: returns without calling DelState.
DeleteAsset_NoDelState(ws, id, getErr, delErr) ==
    LET exists == AssetExists(ws, id, getErr)
    IN  IF exists.err # "nil" THEN Fail(exists.err, Nil)
        ELSE IF ~exists.ret THEN Fail("NotFound", Nil)
        ELSE [err |-> "nil", ret |-> Nil, writes |-> << >>]

DeleteAsset(ws, id, getErr, delErr) ==
    LET exists == AssetExists(ws, id, getErr)
    IN  IF exists.err # "nil" THEN Fail(exists.err, Nil)
        ELSE IF ~exists.ret THEN Fail("NotFound", Nil)
        ELSE IF delErr THEN Fail("StoreError", Nil)
        ELSE [err |-> "nil", ret |-> Nil, writes |-> <<DelState(id)>>]

\* Variant: the record is also put under the new dealer, as an index.
TransferAsset_PutsDealerIndex(ws, id, newDealerID, getErr, putErr) ==
    LET rd == ReadAsset(ws, id, getErr)
        oldDealerID == rd.ret.DEALERID
        asset == [rd.ret EXCEPT !.DEALERID = newDealerID]
        m == Marshal(asset)
    IN  IF rd.err # "nil" THEN Fail(rd.err, << >>)
        ELSE IF m.err # "nil" THEN Fail(m.err, << >>)
        ELSE IF PutStateFails(id, putErr) THEN Fail("StoreError", << >>)
        ELSE [err |-> "nil", ret |-> oldDealerID,
              writes |-> <<PutState(id, m.bytes), PutState(newDealerID, m.bytes)>>]

\* Variant: the new dealer is appended to the stored bytes as one more
\* "dealerid" member instead of marshalling the changed asset.
TransferAsset_PatchesBytes(ws, id, newDealerID, getErr, putErr) ==
    LET rd == ReadAsset(ws, id, getErr)
        oldDealerID == rd.ret.DEALERID
        patched == Append(GetState(ws, id),
                          <<"dealerid", [str |-> ToValidUTF8(newDealerID)]>>)
    IN  IF rd.err # "nil" THEN Fail(rd.err, << >>)
        ELSE IF PutStateFails(id, putErr) THEN Fail("StoreError", << >>)
        ELSE [err |-> "nil", ret |-> oldDealerID,
              writes |-> <<PutState(id, patched)>>]

\* Variant: oldDealerID is read after the assignment.
TransferAsset_ReturnsNew(ws, id, newDealerID, getErr, putErr) ==
    LET rd == ReadAsset(ws, id, getErr)
        asset == [rd.ret EXCEPT !.DEALERID = newDealerID]
        m == Marshal(asset)
    IN  IF rd.err # "nil" THEN Fail(rd.err, << >>)
        ELSE IF m.err # "nil" THEN Fail(m.err, << >>)
        ELSE IF PutStateFails(id, putErr) THEN Fail("StoreError", << >>)
        ELSE [err |-> "nil", ret |-> asset.DEALERID,
              writes |-> <<PutState(id, m.bytes)>>]

\* Returns the old DEALERID, and "" with every error.
TransferAsset(ws, id, newDealerID, getErr, putErr) ==
    LET rd == ReadAsset(ws, id, getErr)
        oldDealerID == rd.ret.DEALERID
        asset == [rd.ret EXCEPT !.DEALERID = newDealerID]
        m == Marshal(asset)
    IN  IF rd.err # "nil" THEN Fail(rd.err, << >>)
        ELSE IF m.err # "nil" THEN Fail(m.err, << >>)
        ELSE IF PutStateFails(id, putErr) THEN Fail("StoreError", << >>)
        ELSE [err |-> "nil", ret |-> oldDealerID,
              writes |-> <<PutState(id, m.bytes)>>]

\* The keys of the model in the byte order of the range scan.
KeyOrder ==
    << << >>, S("TRANS1"), S("TRANS2"), <<"TRANS", BadByte>>, S("asset1"), S("asset2"), S("asset3"),
       S("asset4"), S("asset5"), S("asset6"), S("asset7") >>

\* ctx.GetStub().GetStateByRange("", ""): every key of the state, ascending.
GetStateByRange(ws) == SelectSeq(KeyOrder, LAMBDA k : k \in DOMAIN ws)

\* The loop of GetAllAssets from the i-th result on; the Next() that fetches
\* result number nextErrAt fails (0: none does).
RECURSIVE GetAllAssetsLoop(_, _, _, _, _)
GetAllAssetsLoop(ws, keys, i, nextErrAt, assets) ==
    IF i > Len(keys) THEN [err |-> "nil", ret |-> assets]
    ELSE IF nextErrAt = i THEN [err |-> "StoreError", ret |-> Nil]
    ELSE LET u == Unmarshal(ws[keys[i]])
         IN  IF u.err # "nil" THEN [err |-> u.err, ret |-> Nil]
             ELSE GetAllAssetsLoop(ws, keys, i + 1, nextErrAt,
                                   Append(assets, u.asset))

\* Variant: one asset variable declared outside the loop, so that every
\* element of the result points at the record decoded last.
GetAllAssets_Aliased(ws, openErr, nextErrAt) ==
    LET r == GetAllAssetsLoop(ws, GetStateByRange(ws), 1, nextErrAt, << >>)
        aliased == IF r.err = "nil"
                   THEN [i \in 1..Len(r.ret) |-> r.ret[Len(r.ret)]]
                   ELSE r.ret
    IN  IF openErr
        THEN [err |-> "StoreError", ret |-> Nil, writes |-> << >>, closes |-> 0]
        ELSE [err |-> r.err, ret |-> aliased, writes |-> << >>, closes |-> 1]

\* Variant: each decoded asset is put in front of the slice.
GetAllAssets_Prepends(ws, openErr, nextErrAt) ==
    LET r == GetAllAssetsLoop(ws, GetStateByRange(ws), 1, nextErrAt, << >>)
        reversed == IF r.err = "nil"
                    THEN [i \in 1..Len(r.ret) |-> r.ret[Len(r.ret) - i + 1]]
                    ELSE r.ret
    IN  IF openErr
        THEN [err |-> "StoreError", ret |-> Nil, writes |-> << >>, closes |-> 0]
        ELSE [err |-> r.err, ret |-> reversed, writes |-> << >>, closes |-> 1]

\* closes counts the calls of resultsIterator.Close() (the deferred one).
GetAllAssets(ws, openErr, nextErrAt) ==
    LET r == GetAllAssetsLoop(ws, GetStateByRange(ws), 1, nextErrAt, << >>)
    IN  IF openErr
        THEN [err |-> "StoreError", ret |-> Nil, writes |-> << >>, closes |-> 0]
        ELSE [err |-> r.err, ret |-> r.ret, writes |-> << >>, closes |-> 1]

\* ------------------------------------------------------------ the inputs

\* The empty string is among the ids passed.
Ids == {<< >>, S("asset1"), S("TRANS1"), S("TRANS2"), <<"TRANS", BadByte>>}

Dealers == {S("DEALER101"), S("DEALER202"), <<"DEALER", BadByte>>}

TupleA ==
    [dealerID |-> S("DEALER101"), msisdn |-> S("9877890123"), mpin |-> S("1234"),
     balance |-> "1000", status |-> S("ACTIVE"), transAmount |-> "500",
     transType |-> S("CREDIT"), remarks |-> S("Initial deposit")]

TupleB ==
    [dealerID |-> S("DEALER202"), msisdn |-> S("9811234567"), mpin |-> S("4321"),
     balance |-> "0", status |-> S("INACTIVE"), transAmount |-> "250",
     transType |-> S("DEBIT"), remarks |-> << >>]

ArgTuples ==
    {TupleA, TupleB,
     [TupleB EXCEPT !.dealerID = <<"DEALER", BadByte>>],
     [TupleA EXCEPT !.balance = "NaN"]}

\* At most one store call of an invocation fails.
Faults == {<<FALSE, FALSE>>, <<TRUE, FALSE>>, <<FALSE, TRUE>>}

\* The calls explored: the ill-formed arguments (invalid UTF-8, a non-finite
\* number) and the store faults are tried on one seeded id and one created
\* id; a store fault is injected, and the empty id is passed, in calls
\* whose other arguments are well-formed (plain).
ProbeIds == {S("asset1"), S("TRANS1")}

Explored(id, plain, f) ==
    /\ (f # <<FALSE, FALSE>> \/ id = << >>) => plain
    /\ (f # <<FALSE, FALSE>> \/ ~plain) => id \in ProbeIds

\* ------------------------------------------------------- the invocations

ReadOnly == {"ReadAsset", "AssetExists", "GetAllAssets"}

AssetOf(id, t) ==
    [ID |-> id, DEALERID |-> t.dealerID, MSISDN |-> t.msisdn, MPIN |-> t.mpin,
     BALANCE |-> t.balance, STATUS |-> t.status, TRANSAMOUNT |-> t.transAmount,
     TRANSTYPE |-> t.transType, REMARKS |-> t.remarks]

SeedIds == {Assets[i].ID : i \in 1..Len(Assets)}

\* The run of one GetAllAssets, statement by statement (used by SpecScan):
\* pc is the statement it is at, keys the results of the range scan, pos the
\* number of results Next() has handed out, open whether the iterator is
\* open, deferred whether Close() is deferred, closes the number of Close()
\* calls, assets the slice built so far, err and ret what it returns.
ScanStart ==
    [pc |-> "start", keys |-> << >>, pos |-> 0, open |-> FALSE, opened |-> FALSE,
     deferred |-> FALSE, closes |-> 0, current |-> Nil, assets |-> << >>,
     exit |-> "none", err |-> "nil", ret |-> Nil]

\* Two submitted transactions (used by SpecRace): detect is whether the
\* store validates read versions at commit, version the number of committed
\* writes of each key, commits the transactions in the order they committed.
\* A transaction is simulated (the chaincode function runs against the
\* committed state and its writes are buffered), then committed.
RaceIds == {S("asset1"), S("TRANS1")}

TxIdle ==
    [pc |-> "idle", op |-> "none", id |-> Nil, arg |-> Nil, newDealerID |-> Nil,
     reads |-> {}, commitsSeen |-> 0, res |-> Fail("nil", Nil)]

RaceStart ==
    [detect |-> FALSE, version |-> [k \in RaceIds |-> 0], commits |-> << >>,
     tx |-> [t \in 1..2 |-> TxIdle]]

\* The client application (used by SpecClient): pc is the number of the
\* next call of main, errs the error of each call made so far, panicked
\* whether a call's error made the client panic, faulted whether a store
\* call failed during one of its calls.
ClientStart ==
    [pc |-> 1, transactionId |-> Nil, errs |-> << >>, panicked |-> FALSE,
     faulted |-> FALSE]

\* One invocation: the store commits or discards its writes, and the
\* history variables record it.
Invoke(op, id, arg, fault, res) ==
    LET ok == res.err = "nil"
        wrote == ok /\ op \notin ReadOnly
    IN  /\ n < MaxInvocations
        /\ n' = n + 1
        /\ scan' = scan
        /\ race' = race
        /\ client' = client
        /\ worldState' = Commit(worldState, res)
        /\ last' = [op |-> op, id |-> id, arg |-> arg, fault |-> fault,
                    pre |-> GetState(worldState, id), err |-> res.err,
                    ret |-> res.ret, writes |-> res.writes]
        /\ deleted' = IF ~ok THEN deleted
                      ELSE IF op = "DeleteAsset" THEN deleted \cup {id}
                      ELSE IF op = "CreateAsset" THEN deleted \ {id}
                      ELSE IF op = "InitLedger" THEN deleted \ SeedIds
                      ELSE deleted
        /\ phase' = IF ~wrote THEN phase
                    ELSE IF op = "CreateAsset" /\ phase = "creates" THEN "creates"
                    ELSE IF op = "DeleteAsset" /\ phase = "creates" THEN "deleted"
                    ELSE "other"
        /\ created' = IF ~wrote THEN created
                      ELSE IF op = "CreateAsset" /\ phase = "creates"
                           THEN created \cup {AssetOf(id, arg)}
                      ELSE IF op = "DeleteAsset" /\ phase = "creates"
                           THEN {c \in created : c.ID # id}
                      ELSE {}

NoFault == <<FALSE, FALSE>>

Seed ==
    \E failAt \in 0..Len(Assets) :
        Invoke("InitLedger", Nil, Nil, <<FALSE, failAt # 0>>, InitLedger(failAt))

Create ==
    \E id \in Ids, t \in ArgTuples, f \in Faults :
        /\ Explored(id, t \in {TupleA, TupleB}, f)
        /\ Invoke("CreateAsset", id, t, f,
               CreateAsset(worldState, id, t.dealerID, t.msisdn, t.mpin, t.balance,
                           t.status, t.transAmount, t.transType, t.remarks,
                           f[1], f[2]))

Read ==
    \E id \in Ids, getErr \in BOOLEAN :
        /\ Explored(id, TRUE, <<getErr, FALSE>>)
        /\ Invoke("ReadAsset", id, Nil, <<getErr, FALSE>>,
                  ReadAsset(worldState, id, getErr))

Update ==
    \E id \in Ids, t \in ArgTuples, f \in Faults :
        /\ Explored(id, t \in {TupleA, TupleB}, f)
        /\ Invoke("UpdateAsset", id, t, f,
               UpdateAsset(worldState, id, t.dealerID, t.msisdn, t.mpin, t.balance,
                           t.status, t.transAmount, t.transType, t.remarks,
                           f[1], f[2]))

Delete ==
    \E id \in Ids, f \in Faults :
        /\ Explored(id, TRUE, f)
        /\ Invoke("DeleteAsset", id, Nil, f, DeleteAsset(worldState, id, f[1], f[2]))

Exists ==
    \E id \in Ids, getErr \in BOOLEAN :
        /\ Explored(id, TRUE, <<getErr, FALSE>>)
        /\ Invoke("AssetExists", id, Nil, <<getErr, FALSE>>,
                  AssetExists(worldState, id, getErr))

Transfer ==
    \E id \in Ids, newDealerID \in Dealers, f \in Faults :
        /\ Explored(id, ValidUTF8(newDealerID), f)
        /\ Invoke("TransferAsset", id, newDealerID, f,
                  TransferAsset(worldState, id, newDealerID, f[1], f[2]))

ListAll ==
    \E openErr \in BOOLEAN, nextErrAt \in 0..Cardinality(DOMAIN worldState) :
        /\ openErr => nextErrAt = 0
        /\ Invoke("GetAllAssets", Nil, Nil, <<openErr, nextErrAt # 0>>,
                  GetAllAssets(worldState, openErr, nextErrAt))

Init ==
    /\ worldState = << >>
    /\ last = [op |-> "none", id |-> Nil, arg |-> Nil, fault |-> NoFault,
               pre |-> Nil, err |-> "nil", ret |-> Nil, writes |-> << >>]
    /\ deleted = {}
    /\ created = {}
    /\ phase = "creates"
    /\ n = 0
    /\ scan = ScanStart
    /\ race = RaceStart
    /\ client = ClientStart

Next ==
    \/ Seed
    \/ Create
    \/ Read
    \/ Update
    \/ Delete
    \/ Exists
    \/ Transfer
    \/ ListAll

Spec == Init /\ [][Next]_vars

\* ------------------------------------------- GetAllAssets, step by step

\* A value under the chaincode's namespace that this version of the contract
\* did not write (an earlier version's record, its balance a JSON string).
ForeignValue ==
    << <<"ID", [str |-> S("asset3")]>>, <<"balance", [str |-> S("1500.00")]>> >>

Seeded == Commit(<< >>, InitLedger(0))

SeededAndCreated ==
    Commit(Seeded,
           CreateAsset(Seeded, S("TRANS1"), TupleA.dealerID, TupleA.msisdn,
                       TupleA.mpin, TupleA.balance, TupleA.status,
                       TupleA.transAmount, TupleA.transType, TupleA.remarks,
                       FALSE, FALSE))

OnlyCreated ==
    Commit(<< >>,
           CreateAsset(<< >>, S("TRANS2"), TupleB.dealerID, TupleB.msisdn,
                       TupleB.mpin, TupleB.balance, TupleB.status,
                       TupleB.transAmount, TupleB.transType, TupleB.remarks,
                       FALSE, FALSE))

\* The states of the ledger the scans start from.
ScanStores ==
    {<< >>, Seeded, SeededAndCreated, OnlyCreated,
     ApplyWrite(Seeded, PutState(S("asset3"), ForeignValue)),
     ApplyWrite(SeededAndCreated, PutState(S("TRANS2"), ForeignValue)),
     ApplyWrite(SeededAndCreated, PutState(S("asset7"), ForeignValue))}

\* resultsIterator, err := ctx.GetStub().GetStateByRange("", ""); on an
\* error the function returns before Close() is deferred.
ScanOpen ==
    /\ scan.pc = "start"
    /\ \E openErr \in BOOLEAN :
          scan' = IF openErr
                  THEN [scan EXCEPT !.pc = "done", !.exit = "openError",
                                    !.err = "StoreError", !.ret = Nil]
                  ELSE [scan EXCEPT !.pc = "hasNext", !.open = TRUE,
                                    !.opened = TRUE, !.deferred = TRUE,
                                    !.keys = GetStateByRange(worldState)]
    /\ UNCHANGED <<worldState, last, deleted, created, phase, n, race, client>>

\* for resultsIterator.HasNext() { ... } return assets, nil
ScanHasNext ==
    /\ scan.pc = "hasNext"
    /\ scan' = IF scan.pos < Len(scan.keys)
               THEN [scan EXCEPT !.pc = "next"]
               ELSE [scan EXCEPT !.pc = "return", !.exit = "exhausted",
                                 !.err = "nil", !.ret = scan.assets]
    /\ UNCHANGED <<worldState, last, deleted, created, phase, n, race, client>>

\* queryResponse, err := resultsIterator.Next()
ScanNext ==
    /\ scan.pc = "next"
    /\ \E nextErr \in BOOLEAN :
          scan' = IF nextErr
                  THEN [scan EXCEPT !.pc = "return", !.exit = "nextError",
                                    !.err = "StoreError", !.ret = Nil]
                  ELSE [scan EXCEPT !.pc = "unmarshal", !.pos = scan.pos + 1,
                                    !.current = worldState[scan.keys[scan.pos + 1]]]
    /\ UNCHANGED <<worldState, last, deleted, created, phase, n, race, client>>

\* Variant: a value that does not decode is skipped (continue).
ScanUnmarshal_Skips ==
    /\ scan.pc = "unmarshal"
    /\ LET u == Unmarshal(scan.current)
       IN  scan' = IF u.err # "nil"
                   THEN [scan EXCEPT !.pc = "hasNext"]
                   ELSE [scan EXCEPT !.pc = "hasNext",
                                     !.assets = Append(scan.assets, u.asset)]
    /\ UNCHANGED <<worldState, last, deleted, created, phase, n, race, client>>

\* err = json.Unmarshal(queryResponse.Value, &asset); append
ScanUnmarshal ==
    /\ scan.pc = "unmarshal"
    /\ LET u == Unmarshal(scan.current)
       IN  scan' = IF u.err # "nil"
                   THEN [scan EXCEPT !.pc = "return", !.exit = "unmarshalError",
                                     !.err = u.err, !.ret = Nil]
                   ELSE [scan EXCEPT !.pc = "hasNext",
                                     !.assets = Append(scan.assets, u.asset)]
    /\ UNCHANGED <<worldState, last, deleted, created, phase, n, race, client>>

\* Variant: no defer, Close() is called before the final return only.
ScanReturn_ClosesAtEndOnly ==
    /\ scan.pc = "return"
    /\ scan' = IF scan.exit = "exhausted"
               THEN [scan EXCEPT !.pc = "done", !.open = FALSE,
                                 !.closes = scan.closes + 1]
               ELSE [scan EXCEPT !.pc = "done"]
    /\ UNCHANGED <<worldState, last, deleted, created, phase, n, race, client>>

\* A return statement: the deferred resultsIterator.Close() runs, then the
\* function returns.
ScanReturn ==
    /\ scan.pc = "return"
    /\ scan' = IF scan.deferred
               THEN [scan EXCEPT !.pc = "done", !.open = FALSE,
                                 !.closes = scan.closes + 1]
               ELSE [scan EXCEPT !.pc = "done"]
    /\ UNCHANGED <<worldState, last, deleted, created, phase, n, race, client>>

InitScan ==
    /\ worldState \in ScanStores
    /\ last = [op |-> "none", id |-> Nil, arg |-> Nil, fault |-> NoFault,
               pre |-> Nil, err |-> "nil", ret |-> Nil, writes |-> << >>]
    /\ deleted = {}
    /\ created = {}
    /\ phase = "other"
    /\ n = 0
    /\ scan = ScanStart
    /\ race = RaceStart
    /\ client = ClientStart

NextScan ==
    \/ ScanOpen
    \/ ScanHasNext
    \/ ScanNext
    \/ ScanUnmarshal
    \/ ScanReturn

SpecScan == InitScan /\ [][NextScan]_vars

\* ---------------------------------------------- two transactions

\* Variant: the record comes from a cache of the chaincode, no GetState.
TransferAssetReads_None(id) == {}

\* The keys TransferAsset calls GetState on (through ReadAsset).
TransferAssetReads(id) == {id}

\* TransferAsset runs against the committed state; its PutState is buffered.
TxSimulate(t) ==
    /\ race.tx[t].pc = "idle"
    /\ \E id \in RaceIds, newDealerID \in Dealers, f \in Faults :
          LET res == TransferAsset(worldState, id, newDealerID, f[1], f[2])
          IN  race' = [race EXCEPT !.tx[t] =
                         [pc |-> IF res.err = "nil" THEN "endorsed" ELSE "failed",
                          op |-> "TransferAsset", id |-> id, arg |-> Nil,
                          newDealerID |-> newDealerID,
                          reads |-> {<<k, race.version[k]>> :
                                        k \in TransferAssetReads(id)},
                          commitsSeen |-> Len(race.commits), res |-> res]]
    /\ UNCHANGED <<worldState, last, deleted, created, phase, n, scan, client>>

\* Variant: CreateAsset takes the id for absent without a GetState.
CreateAssetReads_None(id) == {}

\* The keys CreateAsset calls GetState on (through AssetExists).
CreateAssetReads(id) == {id}

\* CreateAsset runs against the committed state; its PutState is buffered.
TxSimulateCreate(t) ==
    /\ race.tx[t].pc = "idle"
    /\ \E id \in RaceIds, a \in ArgTuples, f \in Faults :
          LET res == CreateAsset(worldState, id, a.dealerID, a.msisdn, a.mpin, a.balance, a.status, a.transAmount, a.transType, a.remarks, f[1], f[2])
          IN  race' = [race EXCEPT !.tx[t] =
                         [pc |-> IF res.err = "nil" THEN "endorsed" ELSE "failed",
                          op |-> "CreateAsset", id |-> id, arg |-> a,
                          newDealerID |-> Nil,
                          reads |-> {<<k, race.version[k]>> :
                                        k \in CreateAssetReads(id)},
                          commitsSeen |-> Len(race.commits), res |-> res]]
    /\ UNCHANGED <<worldState, last, deleted, created, phase, n, scan, client>>

\* The store commits the buffered writes of a transaction; with conflict
\* detection it first checks that every key read still has the version read.
TxCommit(t) ==
    LET tx == race.tx[t]
        valid == race.detect =>
                     \A r \in tx.reads : race.version[r[1]] = r[2]
        written == {tx.res.writes[i].key : i \in 1..Len(tx.res.writes)}
    IN  /\ tx.pc = "endorsed"
        /\ worldState' = IF valid THEN Commit(worldState, tx.res) ELSE worldState
        /\ race' = [race EXCEPT
                      !.tx[t].pc = IF valid THEN "committed" ELSE "invalid",
                      !.commits = IF valid THEN Append(race.commits, t)
                                  ELSE race.commits,
                      !.version = [k \in RaceIds |->
                                     IF valid /\ k \in written
                                     THEN race.version[k] + 1
                                     ELSE race.version[k]]]
        /\ UNCHANGED <<last, deleted, created, phase, n, scan, client>>

InitRace ==
    /\ worldState \in {Seeded, SeededAndCreated}
    /\ last = [op |-> "none", id |-> Nil, arg |-> Nil, fault |-> NoFault,
               pre |-> Nil, err |-> "nil", ret |-> Nil, writes |-> << >>]
    /\ deleted = {}
    /\ created = {}
    /\ phase = "other"
    /\ n = 0
    /\ scan = ScanStart
    /\ race \in {[RaceStart EXCEPT !.detect = d] : d \in BOOLEAN}
    /\ client = ClientStart

NextRace ==
    \/ \E t \in 1..2 : TxSimulate(t)
    \/ \E t \in 1..2 : TxSimulateCreate(t)
    \/ \E t \in 1..2 : TxCommit(t)

SpecRace == InitRace /\ [][NextRace]_vars

\* ------------------------------------------------ the client application

\* The transaction functions of SmartContract (its exported methods) and the
\* number of arguments each takes after the context.
Exposed ==
    [name \in {"InitLedger", "CreateAsset", "ReadAsset", "UpdateAsset",
               "DeleteAsset", "AssetExists", "TransferAsset", "GetAllAssets"} |->
        CASE name \in {"InitLedger", "GetAllAssets"} -> 0
          [] name \in {"ReadAsset", "DeleteAsset", "AssetExists"} -> 1
          [] name = "TransferAsset" -> 2
          [] name \in {"CreateAsset", "UpdateAsset"} -> 9]

\* The float64 a decimal string argument is converted to, for the literals
\* the client passes; any other string does not convert.
ParseFloat == [text \in {S("1000.00"), S("500.00")} |->
                  IF text = S("1000.00") THEN "1000" ELSE "500"]

\* transactionId: "TRANS" and the time in milliseconds.
TransactionIds == {S("TRANS1"), S("TRANS2")}

\* The calls of main in order: the transaction name and the arguments
\* passed, whether the call is submitted (or only evaluated), and whether
\* the client panics on its error.
Workflow(transactionId) ==
    << [name |-> "InitLedger", args |-> << >>, submit |-> TRUE, panics |-> TRUE],
       [name |-> "GetAllTransactions", args |-> << >>, submit |-> FALSE,
        panics |-> TRUE],
       [name |-> "CreateTransaction",
        args |-> <<transactionId, S("DEALER101"), S("9877890123"), S("1234"),
                   S("1000.00"), S("ACTIVE"), S("500.00"), S("CREDIT"),
                   S("Initial deposit")>>,
        submit |-> TRUE, panics |-> TRUE],
       [name |-> "ReadTransaction", args |-> <<transactionId>>, submit |-> FALSE,
        panics |-> TRUE],
       [name |-> "TransferFunds",
        args |-> <<transactionId, S("500.00"), S("DEBIT"),
                   S("Fund transfer to recipient")>>,
        submit |-> TRUE, panics |-> TRUE],
       [name |-> "UpdateTransaction",
        args |-> <<S("TRANS123"), S("1000.00"), S("CREDIT"),
                   S("Invalid transaction")>>,
        submit |-> TRUE, panics |-> FALSE] >>

\* The contract run on a transaction name and its string arguments: a name
\* that is no transaction function, a wrong number of arguments or an
\* argument that does not convert is an error before any function runs.
Dispatch(ws, name, args, failAt, f) ==
    IF name \notin DOMAIN Exposed THEN Fail("FunctionNotFound", Nil)
    ELSE IF Len(args) # Exposed[name] THEN Fail("IncorrectParams", Nil)
    ELSE CASE name = "InitLedger" -> InitLedger(failAt)
           [] name = "GetAllAssets" -> GetAllAssets(ws, f[1], 0)
           [] name = "ReadAsset" -> ReadAsset(ws, args[1], f[1])
           [] name = "AssetExists" -> AssetExists(ws, args[1], f[1])
           [] name = "DeleteAsset" -> DeleteAsset(ws, args[1], f[1], f[2])
           [] name = "TransferAsset" ->
                 TransferAsset(ws, args[1], args[2], f[1], f[2])
           [] name = "CreateAsset" ->
                 IF args[5] \notin DOMAIN ParseFloat \/ args[7] \notin DOMAIN ParseFloat
                 THEN Fail("ConversionError", Nil)
                 ELSE CreateAsset(ws, args[1], args[2], args[3], args[4], ParseFloat[args[5]], args[6], ParseFloat[args[7]], args[8], args[9], f[1], f[2])
           [] name = "UpdateAsset" ->
                 IF args[5] \notin DOMAIN ParseFloat \/ args[7] \notin DOMAIN ParseFloat
                 THEN Fail("ConversionError", Nil)
                 ELSE UpdateAsset(ws, args[1], args[2], args[3], args[4], ParseFloat[args[5]], args[6], ParseFloat[args[7]], args[8], args[9], f[1], f[2])

\* The next call of main: the client submits or evaluates the transaction
\* and panics on an error (exampleErrorHandling does not); last records the
\* invocation.
ClientCall ==
    /\ client.pc <= Len(Workflow(client.transactionId))
    /\ ~client.panicked
    /\ \E failAt \in 0..Len(Assets), f \in Faults :
          LET call == Workflow(client.transactionId)[client.pc]
              res == Dispatch(worldState, call.name, call.args, failAt, f)
          IN  /\ call.name = "InitLedger" => f = NoFault
              /\ call.name # "InitLedger" => failAt = 0
              /\ worldState' = IF call.submit THEN Commit(worldState, res)
                               ELSE worldState
              /\ last' = [op |-> call.name,
                          id |-> IF call.args = << >> THEN Nil ELSE call.args[1],
                          arg |-> Nil, fault |-> <<f[1], f[2] \/ failAt # 0>>,
                          pre |-> IF call.args = << >> THEN Nil
                                  ELSE GetState(worldState, call.args[1]),
                          err |-> res.err, ret |-> res.ret, writes |-> res.writes]
              /\ client' = [client EXCEPT
                              !.pc = client.pc + 1,
                              !.errs = Append(client.errs, res.err),
                              !.panicked = call.panics /\ res.err # "nil",
                              !.faulted = client.faulted \/ failAt # 0
                                              \/ f # NoFault]
    /\ UNCHANGED <<deleted, created, phase, n, scan, race>>

InitClient ==
    /\ worldState \in ScanStores
    /\ last = [op |-> "none", id |-> Nil, arg |-> Nil, fault |-> NoFault,
               pre |-> Nil, err |-> "nil", ret |-> Nil, writes |-> << >>]
    /\ deleted = {}
    /\ created = {}
    /\ phase = "other"
    /\ n = 0
    /\ scan = ScanStart
    /\ race = RaceStart
    /\ client \in {[ClientStart EXCEPT !.transactionId = id] : id \in TransactionIds}

NextClient == ClientCall

SpecClient == InitClient /\ [][NextClient]_vars

\* ------------------------------------------------------------ properties

Ok(op) == last.op = op /\ last.err = "nil"

\* The record a Read of id returns in the current state.
ReadNow(id) == ReadAsset(worldState, id, FALSE)

ValidAsset(a) ==
    /\ ValidUTF8(a.ID) /\ ValidUTF8(a.DEALERID) /\ ValidUTF8(a.MSISDN)
    /\ ValidUTF8(a.MPIN) /\ ValidUTF8(a.STATUS) /\ ValidUTF8(a.TRANSTYPE)
    /\ ValidUTF8(a.REMARKS)

\* C1 as stated: after a successful Create(id, ...), Read(id) returns a record
\* whose nine fields are the arguments of the Create, for every argument tuple.
C1_CreateThenReadReturnsArguments ==
    Ok("CreateAsset") =>
        /\ ReadNow(last.id).err = "nil"
        /\ ReadNow(last.id).ret = AssetOf(last.id, last.arg)

\* C1 amended: after a successful Create(id, ...) whose string arguments are
\* all valid UTF-8, Read(id) returns a record whose nine fields are exactly the
\* arguments of the Create.
C1_CreateThenReadReturnsValidArguments ==
    (Ok("CreateAsset") /\ ValidAsset(AssetOf(last.id, last.arg))) =>
        /\ ReadNow(last.id).err = "nil"
        /\ ReadNow(last.id).ret = AssetOf(last.id, last.arg)

C1_Witness ==
    /\ Ok("CreateAsset")
    /\ ValidAsset(AssetOf(last.id, last.arg))
    /\ last.arg = TupleB
    /\ last.pre = Nil

\* C2: a Create of an id that is present fails with AlreadyExists, records no
\* write and leaves the record under id (and the whole store) as it was,
\* whatever its arguments.
C2_CreateOnPresentIdFails ==
    [][(last'.op = "CreateAsset" /\ last'.id \in DOMAIN worldState
            /\ ~last'.fault[1]) =>
        /\ last'.err = "AlreadyExists"
        /\ last'.writes = << >>
        /\ worldState' = worldState]_vars

C2_Witness ==
    /\ last.op = "CreateAsset"
    /\ last.err = "AlreadyExists"
    /\ last.pre # Nil
    /\ last.pre = GetState(worldState, last.id)
    /\ ValidAsset(AssetOf(last.id, last.arg))
    /\ ReadNow(last.id).ret # AssetOf(last.id, last.arg)

\* C3: in every reachable state and for every id, Exists(id) succeeds and is
\* true exactly when a non-empty value is stored under id, and Read(id) fails
\* with NotFound exactly when Exists(id) is false.
C3_ExistsIffPresentAndReadNotFoundIffAbsent ==
    \A id \in Ids \cup SeedIds :
        LET e == AssetExists(worldState, id, FALSE)
            r == ReadNow(id)
        IN  /\ e.err = "nil"
            /\ e.ret <=> (id \in DOMAIN worldState /\ Len(worldState[id]) > 0)
            /\ (r.err = "NotFound") <=> ~e.ret
            /\ (r.err = "nil") <=> e.ret

C3_Witness ==
    /\ Ok("AssetExists")
    /\ last.ret = FALSE
    /\ last.id \notin DOMAIN worldState
    /\ \E id \in Ids : id \in DOMAIN worldState

\* C4: Update, Delete and Transfer of an id that is not present fail with
\* NotFound, record no put and no delete and leave the store unchanged;
\* Transfer returns the empty string.
C4_MutationOfAbsentIdFails ==
    [][(last'.op \in {"UpdateAsset", "DeleteAsset", "TransferAsset"}
            /\ last'.id \notin DOMAIN worldState) =>
        /\ ~last'.fault[1] => last'.err = "NotFound"
        /\ last'.err # "nil"
        /\ last'.writes = << >>
        /\ worldState' = worldState
        /\ last'.op = "TransferAsset" => last'.ret = << >>]_vars

C4_Witness ==
    /\ last.op = "TransferAsset"
    /\ last.err = "NotFound"
    /\ last.pre = Nil
    /\ DOMAIN worldState # {}

\* The record stored under the invocation's id before it ran.
Prior == Unmarshal(last.pre).asset

\* C5 as stated: after a successful Update, Read(id) returns exactly the
\* arguments of the Update for all nine fields.
C5_UpdateThenReadReturnsArguments ==
    Ok("UpdateAsset") =>
        /\ ReadNow(last.id).err = "nil"
        /\ ReadNow(last.id).ret = AssetOf(last.id, last.arg)

\* C5 amended: after a successful Update whose string arguments are all valid
\* UTF-8, Read(id) returns exactly the arguments of the Update for all nine
\* fields, so a field of the previous record survives only where the argument
\* equals it.
C5_UpdateThenReadReturnsValidArguments ==
    (Ok("UpdateAsset") /\ ValidAsset(AssetOf(last.id, last.arg))) =>
        /\ ReadNow(last.id).err = "nil"
        /\ ReadNow(last.id).ret = AssetOf(last.id, last.arg)
        /\ \A f \in DOMAIN Prior \ {"ID"} :
              ReadNow(last.id).ret[f] = Prior[f]
                  => AssetOf(last.id, last.arg)[f] = Prior[f]

\* The Update replaced a record that differs from its arguments in every
\* field but the id.
C5_Witness ==
    /\ Ok("UpdateAsset")
    /\ ValidAsset(AssetOf(last.id, last.arg))
    /\ last.pre # Nil
    /\ \A f \in DOMAIN Prior \ {"ID"} : Prior[f] # AssetOf(last.id, last.arg)[f]

\* C6: an id that a Delete removed, and that no later Create or Seed added
\* again, is absent: Exists is false, Read fails with NotFound and another
\* Delete fails with NotFound.
C6_DeletedStaysAbsent ==
    \A id \in deleted :
        /\ AssetExists(worldState, id, FALSE).ret = FALSE
        /\ AssetExists(worldState, id, FALSE).err = "nil"
        /\ ReadNow(id).err = "NotFound"
        /\ DeleteAsset(worldState, id, FALSE, FALSE).err = "NotFound"
        /\ (last.op = "DeleteAsset" /\ last.id = id /\ last.pre = Nil
                /\ ~last.fault[1])
              => last.err = "NotFound"

\* The second Delete of an id, after other invocations on it.
C6_Witness ==
    /\ last.op = "DeleteAsset"
    /\ last.err = "NotFound"
    /\ last.id \in deleted
    /\ n >= 3

\* C7 as stated: a successful Transfer(id, newDealerId) returns the dealerId
\* the record held before, and Read(id) then shows dealerId = newDealerId and
\* the other eight fields as they were.
C7_TransferSetsDealerOnly ==
    Ok("TransferAsset") =>
        /\ last.ret = Prior.DEALERID
        /\ ReadNow(last.id).err = "nil"
        /\ ReadNow(last.id).ret = [Prior EXCEPT !.DEALERID = last.arg]

\* C7 amended: a successful Transfer(id, newDealerId) returns the dealerId the
\* record held before and leaves the other eight fields as they were; and when
\* newDealerId is valid UTF-8, Read(id) then shows dealerId = newDealerId.
C7_TransferSetsValidDealerOnly ==
    Ok("TransferAsset") =>
        /\ last.ret = Prior.DEALERID
        /\ ReadNow(last.id).err = "nil"
        /\ \A f \in DOMAIN Prior \ {"DEALERID"} :
              ReadNow(last.id).ret[f] = Prior[f]
        /\ ValidUTF8(last.arg) => ReadNow(last.id).ret.DEALERID = last.arg

C7_Witness ==
    /\ Ok("TransferAsset")
    /\ ValidUTF8(last.arg)
    /\ last.pre # Nil
    /\ Prior.DEALERID # last.arg
    /\ Prior.REMARKS # << >>

ExpectedSeedIds ==
    {S("asset1"), S("asset2"), S("asset3"), S("asset4"), S("asset5"),
     S("asset6"), S("asset7")}

\* C8: a successful Seed writes exactly the seven records asset1..asset7, each
\* then read back with its fixed field values (and from the empty store they
\* are the whole store), and a second Seed run in that state leaves the store
\* as it is.
C8_SeedWritesStarterSetAndRepeats ==
    Ok("InitLedger") =>
        /\ Len(last.writes) = 7
        /\ {last.writes[i].key : i \in 1..Len(last.writes)} = ExpectedSeedIds
        /\ \A i \in 1..Len(last.writes) : last.writes[i].op = "put"
        /\ \A i \in 1..Len(Assets) :
              /\ ReadNow(Assets[i].ID).err = "nil"
              /\ ReadNow(Assets[i].ID).ret = Assets[i]
        /\ n = 1 => DOMAIN worldState = ExpectedSeedIds
        /\ InitLedger(0).err = "nil"
        /\ Commit(worldState, InitLedger(0)) = worldState

\* A Seed that overwrote a record an earlier invocation had changed.
C8_Witness ==
    /\ Ok("InitLedger")
    /\ n >= 3
    /\ Cardinality(DOMAIN worldState) > 7

\* The result of a ListAll in the current state.
ListNow == GetAllAssets(worldState, FALSE, 0)

ListedExactly(records) ==
    /\ ListNow.err = "nil"
    /\ Len(ListNow.ret) = Cardinality(records)
    /\ {ListNow.ret[i] : i \in 1..Len(ListNow.ret)} = records

\* C9 as stated: from the empty store, after N successful Creates of distinct
\* ids ListAll returns exactly the N created records, and after the Delete of
\* one of them exactly the other N-1.
C9_ListAllReturnsCreated ==
    phase \in {"creates", "deleted"} => ListedExactly(created)

\* C9 amended: the same, for Creates whose string arguments are all valid
\* UTF-8.
C9_ListAllReturnsValidCreated ==
    (phase \in {"creates", "deleted"} /\ \A c \in created : ValidAsset(c))
        => ListedExactly(created)

\* Two records were created and one of them deleted.
C9_Witness ==
    /\ phase = "deleted"
    /\ Cardinality(created) = 1
    /\ \A c \in created : ValidAsset(c)
    /\ Ok("DeleteAsset")
    /\ n = 3

\* C10 as stated: every record of the store is stored under a key equal to
\* its own id field.
C10_KeyEqualsRecordId ==
    \A k \in DOMAIN worldState : Unmarshal(worldState[k]).asset.ID = k

\* C10 amended: every record of the store whose key is valid UTF-8 is stored
\* under a key equal to its own id field.
C10_ValidKeyEqualsRecordId ==
    \A k \in DOMAIN worldState :
        /\ Unmarshal(worldState[k]).err = "nil"
        /\ ValidUTF8(k) => Unmarshal(worldState[k]).asset.ID = k

C10_Witness ==
    /\ Ok("TransferAsset")
    /\ Cardinality(DOMAIN worldState) > 7
    /\ \E k \in DOMAIN worldState : ~ValidUTF8(k)

\* C11: a GetAllAssets that opened the range scan has closed the iterator
\* exactly once when it returns, whether the scan was exhausted, Next() failed
\* or a value did not decode; it never closes it twice, and it is closed
\* nowhere before the return.
C11_IteratorClosedExactlyOnce ==
    /\ scan.closes <= 1
    /\ scan.pc \notin {"done", "start"} => (scan.open /\ scan.closes = 0)
    /\ (scan.pc = "done" /\ scan.opened) => (scan.closes = 1 /\ ~scan.open)
    /\ (scan.pc = "done" /\ ~scan.opened) => (scan.closes = 0 /\ ~scan.open)
    /\ scan.pc = "done" =>
          scan.closes = GetAllAssets(worldState, ~scan.opened,
                                     IF scan.exit = "nextError"
                                     THEN scan.pos + 1 ELSE 0).closes

\* A scan that stopped at a value that did not decode, after it had decoded
\* others, has returned.
C11_Witness ==
    /\ scan.pc = "done"
    /\ scan.exit = "unmarshalError"
    /\ scan.pos >= 2
    /\ scan.closes = 1


\* Both transfers of one id were simulated before either committed, both
\* committed, and both returned the same previous dealer.
LostUpdate ==
    /\ race.tx[1].op = "TransferAsset" /\ race.tx[2].op = "TransferAsset"
    /\ race.tx[1].pc = "committed" /\ race.tx[2].pc = "committed"
    /\ race.tx[1].id = race.tx[2].id
    /\ race.tx[1].commitsSeen = 0 /\ race.tx[2].commitsSeen = 0
    /\ race.tx[1].res.ret = race.tx[2].res.ret

\* The transaction that committed last.
LastCommitted == race.tx[race.commits[Len(race.commits)]]

\* C12: two concurrent transfers of one existing id that both read before
\* either commits never both commit when the store detects key conflicts at
\* commit (exactly one does); without the detection both commit, both return
\* the dealer stored before, and the final record carries the dealer of the
\* one that committed last only.
C12_LostUpdateOnlyWithoutConflictDetection ==
    LET a == race.tx[1]
        b == race.tx[2]
        raced == /\ a.op = "TransferAsset" /\ b.op = "TransferAsset"
                 /\ a.pc \in {"committed", "invalid"}
                 /\ b.pc \in {"committed", "invalid"}
                 /\ a.id = b.id
                 /\ a.commitsSeen = 0 /\ b.commitsSeen = 0
    IN  /\ race.detect => ~LostUpdate
        /\ (race.detect /\ raced) => {a.pc, b.pc} = {"committed", "invalid"}
        /\ (~race.detect /\ raced) => LostUpdate
        /\ LostUpdate =>
              /\ ReadNow(a.id).ret.DEALERID = ToValidUTF8(LastCommitted.newDealerID)
              /\ a.res.ret = Unmarshal(SeededAndCreated[a.id]).asset.DEALERID

C12_Witness ==
    /\ ~race.detect
    /\ LostUpdate
    /\ race.tx[1].newDealerID = S("DEALER101")
    /\ race.tx[2].newDealerID = S("DEALER202")
    /\ race.commits = <<2, 1>>
    /\ ReadNow(race.tx[1].id).ret.DEALERID = S("DEALER101")

\* C13: an invocation in which a store call fails returns an error, and an
\* invocation that returns an error leaves the world state as it was before
\* it began, whatever it had put or deleted until then.
C13_FailedInvocationLeavesNoWrites ==
    [][/\ (last'.fault[1] \/ last'.fault[2]) => last'.err # "nil"
       /\ last'.err # "nil" => worldState' = worldState]_vars

C13_Witness ==
    /\ last.op = "InitLedger"
    /\ last.err = "StoreError"
    /\ Len(last.writes) >= 3
    /\ DOMAIN worldState = {S("TRANS1"), S("TRANS2")}

\* The asset value the last invocation handed to json.Marshal.
Marshalled ==
    IF last.op = "TransferAsset" THEN [Prior EXCEPT !.DEALERID = last.arg]
    ELSE AssetOf(last.id, last.arg)

\* Marshal then Unmarshal gives the record back.
RoundTrips(R) == Unmarshal(Marshal(R).bytes).asset = R

\* C14: every record with finite numbers and valid UTF-8 strings that an
\* invocation marshals is what Unmarshal gives back from the bytes, and the
\* bytes written for a record are those Marshal gives for its field values,
\* whichever of CreateAsset, UpdateAsset, TransferAsset and InitLedger wrote
\* it; every stored value is the marshalled form of the record it decodes to.
C14_RoundTripAndSameBytes ==
    /\ (last.err = "nil" /\ last.op \in {"CreateAsset", "UpdateAsset", "TransferAsset"})
          => /\ last.writes = <<PutState(last.id, Marshal(Marshalled).bytes)>>
             /\ ValidAsset(Marshalled) => RoundTrips(Marshalled)
    /\ Ok("InitLedger")
          => \A i \in 1..Len(Assets) :
                /\ last.writes[i] = PutState(Assets[i].ID, Marshal(Assets[i]).bytes)
                /\ RoundTrips(Assets[i])
    /\ \A k \in DOMAIN worldState :
          worldState[k] = Marshal(Unmarshal(worldState[k]).asset).bytes

\* A transfer to the dealer the created record already had writes the bytes
\* the create wrote.
C14_Witness ==
    /\ Ok("TransferAsset")
    /\ last.arg = S("DEALER101")
    /\ last.pre = Marshal(AssetOf(last.id, TupleA)).bytes
    /\ last.writes[1].value = last.pre
    /\ ReadNow(last.id).ret = AssetOf(last.id, TupleA)

\* The member names of a marshalled value, in the order they are emitted.
KeysOf(bytes) == [i \in 1..Len(bytes) |-> bytes[i][1]]

\* balance, dealerId, id, pin, msisdn, remarks, status, transactionAmount,
\* transactionType under the names the json tags give them.
WireKeys ==
    <<"balance", "dealerid", "ID", "mpin", "msisdn", "remarks", "status",
      "transamount", "transtype">>

\* The struct field each json tag belongs to, letter by letter.
FieldName ==
    [k \in StrKeys \cup NumKeys |->
        CASE k = "balance" -> <<"B", "A", "L", "A", "N", "C", "E">>
          [] k = "dealerid" -> <<"D", "E", "A", "L", "E", "R", "I", "D">>
          [] k = "ID" -> <<"I", "D">>
          [] k = "mpin" -> <<"M", "P", "I", "N">>
          [] k = "msisdn" -> <<"M", "S", "I", "S", "D", "N">>
          [] k = "remarks" -> <<"R", "E", "M", "A", "R", "K", "S">>
          [] k = "status" -> <<"S", "T", "A", "T", "U", "S">>
          [] k = "transamount" ->
                <<"T", "R", "A", "N", "S", "A", "M", "O", "U", "N", "T">>
          [] k = "transtype" -> <<"T", "R", "A", "N", "S", "T", "Y", "P", "E">>]

Alphabet ==
    <<"A", "B", "C", "D", "E", "F", "G", "H", "I", "J", "K", "L", "M", "N", "O",
      "P", "Q", "R", "S", "T", "U", "V", "W", "X", "Y", "Z">>

LetterRank(c) == CHOOSE i \in 1..Len(Alphabet) : Alphabet[i] = c

\* a comes before b in lexicographic order.
RECURSIVE LexLess(_, _)
LexLess(a, b) ==
    IF b = << >> THEN FALSE
    ELSE IF a = << >> THEN TRUE
    ELSE IF Head(a) # Head(b) THEN LetterRank(Head(a)) < LetterRank(Head(b))
    ELSE LexLess(Tail(a), Tail(b))

\* C15: every value an invocation puts, and every stored value, has exactly
\* the nine members balance, dealerid, ID, mpin, msisdn, remarks, status,
\* transamount, transtype in this order, which is the lexicographic order of
\* the field names, whatever order the fields were passed or assigned in.
C15_KeysInFixedLexicographicOrder ==
    /\ \A i \in 1..Len(last.writes) :
          last.writes[i].op = "put" => KeysOf(last.writes[i].value) = WireKeys
    /\ \A k \in DOMAIN worldState : KeysOf(worldState[k]) = WireKeys
    /\ \A i \in 1..(Len(WireKeys) - 1) :
          LexLess(FieldName[WireKeys[i]], FieldName[WireKeys[i + 1]])

\* A record whose dealer was assigned last, by a transfer, after a create
\* that got the id first and the balance fifth.
C15_Witness ==
    /\ Ok("TransferAsset")
    /\ last.arg = S("DEALER202")
    /\ KeysOf(last.pre) = WireKeys
    /\ KeysOf(worldState[last.id]) = WireKeys
    /\ ReadNow(last.id).ret.DEALERID = S("DEALER202")
    /\ ReadNow(last.id).ret.MPIN = S("1234")

C17_SeedOverwritesFixedIdsOnly ==
    [][last'.op = "InitLedger" =>
         /\ ~last'.fault[2] => last'.err = "nil"
         /\ last'.err = "nil" =>
               /\ DOMAIN worldState' = DOMAIN worldState \cup SeedIds
               /\ \A i \in 1..Len(Assets) :
                     /\ worldState'[Assets[i].ID] = Marshal(Assets[i]).bytes
                     /\ Unmarshal(worldState'[Assets[i].ID]).asset = Assets[i]
               /\ \A k \in DOMAIN worldState \ SeedIds :
                     worldState'[k] = worldState[k]]_vars

\* A seed over a ledger that held a created record outside the seven ids and
\* a record under asset1.
C17_Witness ==
    /\ Ok("InitLedger")
    /\ n = 3
    /\ ReadNow(S("TRANS2")).ret = AssetOf(S("TRANS2"), TupleB)
    /\ ReadNow(S("asset1")).ret = Assets[1]
    /\ Cardinality(DOMAIN worldState) = Len(Assets) + 1

\* The number of keys of the world state among the first i of the scan order.
KeysUpTo(i) == Cardinality({j \in 1..i : KeyOrder[j] \in DOMAIN worldState})

\* C18: GetAllAssets returns one record for each key of the world state, the
\* record under the i-th smallest key at position i; on the empty world state
\* it returns the empty sequence and no error.
C18_ListAllInKeyOrder ==
    \A list \in {ListNow} :
        /\ list.err = "nil"
        /\ Len(list.ret) = Cardinality(DOMAIN worldState)
        /\ \A i \in 1..Len(KeyOrder) :
              KeyOrder[i] \in DOMAIN worldState
                  => list.ret[KeysUpTo(i)] = Unmarshal(worldState[KeyOrder[i]]).asset
        /\ worldState = << >> => list.ret = << >>
        /\ Ok("GetAllAssets") => last.ret = list.ret

C18_Witness ==
    /\ Ok("GetAllAssets")
    /\ Len(last.ret) = Len(Assets) + 1
    /\ last.ret[1] = AssetOf(S("TRANS1"), TupleB)
    /\ last.ret[2] = Assets[1]
    /\ last.ret[Len(last.ret)] = Assets[Len(Assets)]

\* C19: a GetAllAssets that returns an error returns no assets, and it
\* returns an error exactly when the scan did not open, a Next() failed, or
\* the value Next() handed out last does not decode; it stops there, with
\* every value before it decoded into the slice; a run without error
\* has decoded every value of the world state.
C19_ListAllAbortsWithErrorOnly ==
    LET stopped == scan.pc \in {"return", "done"}
        taken == [i \in 1..scan.pos |-> worldState[scan.keys[i]]]
    IN  /\ (stopped /\ scan.err # "nil") => scan.ret = Nil
        /\ (stopped /\ scan.exit = "unmarshalError")
              => /\ Unmarshal(taken[scan.pos]).err # "nil"
                 /\ scan.err = "DeserializationError"
                 /\ Len(scan.assets) = scan.pos - 1
        /\ (stopped /\ scan.exit = "nextError")
              => (scan.err = "StoreError" /\ Len(scan.assets) = scan.pos)
        /\ (stopped /\ scan.exit = "openError")
              => (scan.err = "StoreError" /\ scan.pos = 0)
        /\ (stopped /\ scan.err = "nil")
              => /\ scan.exit = "exhausted"
                 /\ scan.pos = Cardinality(DOMAIN worldState)
                 /\ scan.ret = [i \in 1..scan.pos |-> Unmarshal(taken[i]).asset]
                 /\ \A i \in 1..scan.pos : Unmarshal(taken[i]).err = "nil"
        /\ scan.pc \in {"hasNext", "next"}
              => /\ Len(scan.assets) = scan.pos
                 /\ \A i \in 1..scan.pos : Unmarshal(taken[i]).err = "nil"
        /\ scan.pc = "done"
              => LET whole == GetAllAssets(worldState, scan.exit = "openError",
                                  IF scan.exit = "nextError" THEN scan.pos + 1 ELSE 0)
                 IN  scan.err = whole.err /\ scan.ret = whole.ret

\* The scan met a value that does not decode after it had decoded others,
\* with more values after it.
C19_Witness ==
    /\ scan.pc = "done"
    /\ scan.exit = "unmarshalError"
    /\ scan.ret = Nil
    /\ Len(scan.assets) >= 1
    /\ scan.pos < Len(scan.keys)

\* C20: an invocation after which the world state has a key it did not have
\* is a successful CreateAsset or InitLedger, one after which it lacks a key
\* it had is a successful DeleteAsset; UpdateAsset, TransferAsset, ReadAsset,
\* AssetExists and GetAllAssets leave the set of keys as it was.
C20_KeySetChangesOnlyByCreateSeedDelete ==
    [][/\ DOMAIN worldState' \ DOMAIN worldState # {}
            => (last'.op \in {"CreateAsset", "InitLedger"} /\ last'.err = "nil")
       /\ DOMAIN worldState \ DOMAIN worldState' # {}
            => (last'.op = "DeleteAsset" /\ last'.err = "nil")
       /\ last'.op \in {"UpdateAsset", "TransferAsset", "ReadAsset",
                         "AssetExists", "GetAllAssets"}
            => DOMAIN worldState' = DOMAIN worldState
       /\ (last'.op = "CreateAsset" /\ last'.err = "nil")
            => DOMAIN worldState' = DOMAIN worldState \cup {last'.id}
       /\ (last'.op = "DeleteAsset" /\ last'.err = "nil")
            => DOMAIN worldState' = DOMAIN worldState \ {last'.id}]_vars

\* An update and a transfer of created records, the keys still those created.
C20_Witness ==
    /\ Ok("TransferAsset")
    /\ n = 3
    /\ last.pre # Nil
    /\ ReadNow(last.id).ret.REMARKS = << >>
    /\ DOMAIN worldState = {last.id}
    /\ created = {}

\* Two CreateAsset transactions of one id, both simulated while the id was
\* absent and before either committed, have both reached the commit step.
CreatesRaced ==
    /\ race.tx[1].op = "CreateAsset" /\ race.tx[2].op = "CreateAsset"
    /\ race.tx[1].id = race.tx[2].id
    /\ race.tx[1].commitsSeen = 0 /\ race.tx[2].commitsSeen = 0
    /\ race.tx[1].pc \in {"committed", "invalid"}
    /\ race.tx[2].pc \in {"committed", "invalid"}

\* The transactions that committed.
Committed == {t \in 1..2 : race.tx[t].pc = "committed"}

\* C21 as stated: of two concurrent creates of one absent id at most one
\* succeeds, and the record stored under the id is made of the arguments of
\* the one that succeeded, whatever the store and the arguments.
C21_AtMostOneCreateSucceeds ==
    CreatesRaced =>
        /\ Cardinality(Committed) <= 1
        /\ \A t \in Committed :
              ReadNow(race.tx[t].id).ret = AssetOf(race.tx[t].id, race.tx[t].arg)

\* C21 amended: when the store detects key conflicts at commit, exactly one
\* of two concurrent creates of one absent id commits and the other is
\* invalidated (both calls of CreateAsset returned nil); the record stored
\* under the id is made of the arguments of the one that committed when
\* these are valid UTF-8.
C21_AtMostOneCreateCommitsUnderDetection ==
    (race.detect /\ CreatesRaced) =>
        /\ Cardinality(Committed) = 1
        /\ race.tx[1].res.err = "nil" /\ race.tx[2].res.err = "nil"
        /\ \A t \in Committed :
              LET asset == AssetOf(race.tx[t].id, race.tx[t].arg)
              IN  /\ ReadNow(race.tx[t].id).err = "nil"
                  /\ ValidAsset(asset) => ReadNow(race.tx[t].id).ret = asset

C21_Witness ==
    /\ race.detect
    /\ CreatesRaced
    /\ race.tx[1].pc = "invalid"
    /\ race.tx[2].pc = "committed"
    /\ race.tx[1].arg = TupleA
    /\ race.tx[2].arg = TupleB
    /\ ReadNow(race.tx[2].id).ret = AssetOf(race.tx[2].id, TupleB)

\* C22: ReadAsset, AssetExists and GetAllAssets make no write and leave the
\* world state as it was; CreateAsset, UpdateAsset and TransferAsset on id
\* make at most one write, a put of key id; DeleteAsset on id makes at most
\* one write, a delete of key id; every key other than id is present
\* afterwards exactly if it was before, with the same value.
C22_WriteFootprintIsTheNamedKey ==
    [][/\ last'.op \in ReadOnly
            => (last'.writes = << >> /\ worldState' = worldState)
       /\ last'.op \in {"CreateAsset", "UpdateAsset", "TransferAsset"}
            => /\ Len(last'.writes) <= 1
               /\ \A i \in 1..Len(last'.writes) :
                     last'.writes[i].op = "put" /\ last'.writes[i].key = last'.id
       /\ last'.op = "DeleteAsset"
            => /\ Len(last'.writes) <= 1
               /\ \A i \in 1..Len(last'.writes) :
                     last'.writes[i].op = "del" /\ last'.writes[i].key = last'.id
       /\ last'.op \in {"CreateAsset", "UpdateAsset", "TransferAsset", "DeleteAsset"}
            => /\ DOMAIN worldState' \ {last'.id} = DOMAIN worldState \ {last'.id}
               /\ \A k \in DOMAIN worldState \ {last'.id} :
                     worldState'[k] = worldState[k]]_vars

\* A delete among the seeded records and a created one.
C22_Witness ==
    /\ Ok("DeleteAsset")
    /\ last.writes = <<DelState(last.id)>>
    /\ last.id = S("asset1")
    /\ DOMAIN worldState = (SeedIds \ {last.id}) \cup {S("TRANS2")}

\* C23 as stated: every call main has made names a transaction function of
\* the contract and passes the number of arguments it takes; when no store
\* call fails, the calls before exampleErrorHandling return no error and the
\* update of TRANS123 returns the error of an id that does not exist.
C23_ClientWorkflowSucceeds ==
    LET calls == Workflow(client.transactionId)
    IN  \A i \in 1..Len(client.errs) :
            /\ calls[i].name \in DOMAIN Exposed
            /\ Len(calls[i].args) = Exposed[calls[i].name]
            /\ (~client.faulted /\ i < Len(calls)) => client.errs[i] = "nil"
            /\ (~client.faulted /\ i = Len(calls)) => client.errs[i] = "NotFound"
====
